---- MODULE Spec2Model ----
(***************************************************************************)
(* The interval store of calcal (src/src/Calendar/ctx.tsx): the Calendar,  *)
(* a map from day key to the list of intervals of that day, and the        *)
(* provider's operations addInterval, stopInterval, resumeInterval,        *)
(* updateInterval, deleteInterval, the single-running toggle and the shown *)
(* date.                                                                   *)
(*                                                                         *)
(* Time is counted in ticks.  A minute is TicksPerMinute ticks, a day is   *)
(* MinutesPerDay minutes, a month is DaysPerMonth days.  A timestamp is a  *)
(* number of ticks since the start of day 0; NoDate is the absent date     *)
(* (null or undefined in the source).                                      *)
(***************************************************************************)
EXTENDS Integers, Sequences, FiniteSets, TLC

\* ------------------------------------------------------------------ bounds
TicksPerMinute == 2
MinutesPerDay == 2
DaysPerMonth == 2
MaxTime == 5
MaxIntervals == 2
MaxIds == 3

TicksPerDay == TicksPerMinute * MinutesPerDay

\* ------------------------------------------------------------ data model
\* Date | null: the absent date.
NoDate == -1
\* The falsy identifier (undefined or ""), replaced by a generated one.
NoId == 0
\* An identifier a caller makes up, distinct from every generated one.
CallerId == MaxIds + 1
\* The labels (msg): the empty label and one description.
Labels == {"", "w"}

\* interface DateInterval
DateInterval(id, start, end, msg) ==
    [identifier |-> id, start |-> start, end |-> end, msg |-> msg]

\* The value a handler returns: an identifier ("id"), null ("null"), one of
\* the error strings ("required", "nointervals", "notfound"), nothing
\* ("void"), or no value because it threw ("threw").
Ret(kind, id) == [kind |-> kind, id |-> id]

VARIABLES
    calendar,                \* useState<Map<string, DateInterval[]>>
    isStopLastIntervalOnAdd, \* useState<boolean>(true)
    descriptions,            \* useState<string[]>([])
    showingDate,             \* useState<Date>(new Date())
    now,                     \* the clock: what new Date() returns
    lastOp,                  \* the last call: operation, returned value, time of a stop
    localStorage,            \* the item "calendar" of localStorage
    quotaExceeded,           \* localStorage.setItem throws (the quota is exceeded)
    db,                      \* the IndexedDB database 'calendar-db'
    tagCalls,                \* the calls of getOrCreateTag in flight
    saveCalls                \* the calls of saveAllIntervals in flight

vars == <<calendar, isStopLastIntervalOnAdd, descriptions, showingDate, now,
          lastOp, localStorage, quotaExceeded, db, tagCalls, saveCalls>>

\* ------------------------------------------------------ time normalization
\* The date with its seconds and milliseconds kept.
keepSeconds(date) == date

\* cropDateToHoursMinutes: seconds and milliseconds set to zero.
cropDateToHoursMinutes(date) == date - (date % TicksPerMinute)

\* setHours(0, 0, 0, 0): the local midnight of the date's day.
Midnight(date) == date - (date % TicksPerDay)

\* toDateString of a midnight: the day, with no time component.
toDateString(date) == date \div TicksPerDay

\* A key that keeps the hour and the minute of the date.
DayKeyPerMinute(date) == date \div TicksPerMinute

\* The bucket key of a date: dayD.setHours(0,0,0,0); dayD.toDateString().
DayKey(date) == toDateString(Midnight(date))

\* new Date(day) of a day key: the midnight of that day.
DateOfKey(day) == day * TicksPerDay

\* Date.getDate(): the day of the month.
getDate(date) == (toDateString(date) % DaysPerMonth) + 1

\* cropDayInterval: start and end cropped to the minute.
cropDayInterval(dateInterval) ==
    [dateInterval EXCEPT
        !.start = cropDateToHoursMinutes(dateInterval.start),
        !.end = IF dateInterval.end # NoDate
                THEN cropDateToHoursMinutes(dateInterval.end) ELSE NoDate]

\* ------------------------------------------------------------ map helpers
\* Map.get(day) ?? []
Bucket(cal, day) == IF day \in DOMAIN cal THEN cal[day] ELSE <<>>

\* Map.set(day, intervals)
MapSet(cal, day, intervals) ==
    [d \in (DOMAIN cal) \cup {day} |-> IF d = day THEN intervals ELSE cal[d]]

\* Map.delete(day)
MapDelete(cal, day) == [d \in (DOMAIN cal) \ {day} |-> cal[d]]

\* getIntervals(ddI, date)
getIntervals(cal, date) == Bucket(cal, DayKey(date))

\* getDates(): one date per key of the calendar.
getDates(cal) == {DateOfKey(day) : day \in DOMAIN cal}

\* Array.findIndex by identifier: the first index, or 0 when there is none
\* (-1 in the source, whose arrays start at 0).
findIndex(intervals, id) ==
    IF \E i \in 1..Len(intervals) : intervals[i].identifier = id
    THEN CHOOSE i \in 1..Len(intervals) :
            /\ intervals[i].identifier = id
            /\ \A j \in 1..(i - 1) : intervals[j].identifier # id
    ELSE 0

\* Every interval of the calendar, with its place.
Places(cal) == UNION {{<<d, i>> : i \in 1..Len(cal[d])} : d \in DOMAIN cal}

At(cal, p) == cal[p[1]][p[2]]

Stored(cal) == {At(cal, p) : p \in Places(cal)}

Count(cal) == Cardinality(Places(cal))

\* The distinct labels of a list, sorted: Array.from(new Set(l)).sort().
LabelOrder == <<"", "w">>
SortUnique(msgs) ==
    SelectSeq(LabelOrder, LAMBDA l : \E i \in 1..Len(msgs) : msgs[i] = l)

\* -------------------------------------------------------------- localStorage
\* Date.toJSON() inside JSON.stringify: the ISO string of a date (a one-element
\* sequence here), null for an absent date (the empty sequence).
toJSON(date) == IF date = NoDate THEN <<>> ELSE <<date>>

\* new Date(string) of an ISO string.
DateOfJSON(iso) == iso[1]

\* JSON.stringify(mapToObj(map)): the object of the map's entries, the dates
\* of each interval written as strings.
mapToObj(map) ==
    [day \in DOMAIN map |->
        [i \in 1..Len(map[day]) |->
            [identifier |-> map[day][i].identifier,
             start |-> toJSON(map[day][i].start),
             end |-> toJSON(map[day][i].end),
             msg |-> map[day][i].msg]]]

\* objToMap(obj): the map of the object's keys, start and end parsed back to
\* dates (end ? new Date(end) : null).
objToMap(obj) ==
    [key \in DOMAIN obj |->
        [i \in 1..Len(obj[key]) |->
            [identifier |-> obj[key][i].identifier,
             start |-> DateOfJSON(obj[key][i].start),
             end |-> IF obj[key][i].end # <<>>
                     THEN DateOfJSON(obj[key][i].end) ELSE NoDate,
             msg |-> obj[key][i].msg]]]

\* The values of the item: absent (getItem gives null), a text that is not
\* JSON, or the JSON text of an object.
NoItem == [kind |-> "absent", obj |-> <<>>]
NotJSON == [kind |-> "garbage", obj |-> <<>>]
JSONItem(obj) == [kind |-> "json", obj |-> obj]

\* saveCalendar that writes nothing.
saveCalendarNever(item, map, throws) == item

\* saveCalendar of the save effect: setItem("calendar", JSON.stringify(...));
\* when setItem throws the error is logged and the item stays as it was.
saveCalendar(item, map, throws) ==
    IF throws THEN item ELSE JSONItem(mapToObj(map))

\* The initializer without its try and catch: JSON.parse throws to the caller.
loadCalendarNoCatch(item) ==
    [calendar |-> IF item.kind = "json" THEN objToMap(item.obj) ELSE <<>>,
     threw |-> item.kind = "garbage"]

\* The initializer of the calendar state: the parsed item, or an empty map
\* when the item is absent or when parsing it throws (the error is caught and
\* logged); nothing is thrown to the caller.
loadCalendar(item) ==
    [calendar |-> IF item.kind = "json" THEN objToMap(item.obj) ELSE <<>>,
     threw |-> FALSE]

\* ----------------------------------------------------------------- IndexedDB
\* tagId: number | null.  null is the reference of an interval without tag; 0
\* is what getOrCreateTag returns for an empty name.
NullTag == -1
EmptyTag == 0

\* The database: its version (0 when it does not exist), the object store
\* 'intervals' of schema 1 (days: one record per date, the intervals
\* embedded), the object stores 'intervals' and 'tags' of schema 2.
DB(version, days, intervals, tags) ==
    [version |-> version, days |-> days, intervals |-> intervals, tags |-> tags]

NoDB == DB(0, <<>>, {}, {})

\* interface Tag, interface IntervalRecord
Tag(id, name) == [id |-> id, name |-> name]
\* An interval record written without the end of the interval.
IntervalRecordDropsEnd(id, interval, tagId, date) ==
    [id |-> id, identifier |-> interval.identifier, start |-> interval.start,
     end |-> NoDate, tagId |-> tagId, date |-> date]

IntervalRecord(id, interval, tagId, date) ==
    [id |-> id, identifier |-> interval.identifier, start |-> interval.start,
     end |-> interval.end, tagId |-> tagId, date |-> date]

\* autoIncrement: a key no record of the store has.  The module never reads
\* the value of a key but to compare it, so the smallest free one is taken.
NewKey(records) ==
    CHOOSE k \in 1..(Cardinality(records) + 1) :
        /\ \A r \in records : r.id # k
        /\ \A j \in 1..(k - 1) : \E r \in records : r.id = j

\* The record of the greatest key among records (the set is not empty).
LastOf(records) == CHOOSE r \in records : \A q \in records : q.id <= r.id

\* The record of the smallest key among records (the set is not empty).
FirstOf(records) == CHOOSE r \in records : \A q \in records : r.id <= q.id

\* db.put(store, record): the record replaces the one of its key.
put(records, record) == {r \in records : r.id # record.id} \cup {record}

\* getDB() of the schema-1 module: version 1, the store keyed by date created
\* when it is missing.
getDB1(d) == IF d.version = 0 THEN DB(1, <<>>, {}, {}) ELSE d

\* getDB() of the schema-2 module: the upgrade creates 'tags' and
\* 'intervals'; coming from version 1 it deletes the store 'intervals' of
\* schema 1 and creates it again, empty, with the new schema.
getDB(d) ==
    IF d.version = 2 THEN d ELSE DB(2, <<>>, {}, {})

\* A call of getOrCreateTag: where it is (idle: no call; get: its transaction
\* is created and index.get requested; add: the get found nothing; returned;
\* threw), its argument, what it returned, and whether a transaction of
\* another call was unfinished when it was made.
TagCall(pc, tagName, ret, overlapped) ==
    [pc |-> pc, tagName |-> tagName, ret |-> ret, overlapped |-> overlapped]

MaxCalls == 2

\* queue: the readwrite transactions on 'tags' that are not finished, named
\* after their calls, in the order they were created.
NoTagCalls ==
    [queue |-> <<>>, call |-> [p \in 1..MaxCalls |-> TagCall("idle", "", EmptyTag, FALSE)]]

\* The index of getOrCreateTag keyed by something else than the name: get
\* returns whatever tag there is.
byAnyName(tags, tagName) == tags

\* index('by-name').get(tagName): the tags of that name.
byName(tags, tagName) == {t \in tags : t.name = tagName}

\* store.add({ name: tagName }) under the unique index 'by-name': a
\* ConstraintError when a tag has the name already.
tagAdd(tags, tagName) ==
    IF byName(tags, tagName) # {}
    THEN [tags |-> tags, id |-> EmptyTag, threw |-> TRUE]
    ELSE [tags |-> tags \cup {Tag(NewKey(tags), tagName)}, id |-> NewKey(tags),
          threw |-> FALSE]

\* getOrCreateTag(db, tagName) run alone: 0 for an empty name; else the id of
\* the tag of that name, added when there is none.
getOrCreateTag(tags, tagName) ==
    IF tagName = "" THEN [tags |-> tags, id |-> EmptyTag]
    ELSE IF byName(tags, tagName) # {}
    THEN [tags |-> tags, id |-> FirstOf(byName(tags, tagName)).id]
    ELSE [tags |-> tagAdd(tags, tagName).tags, id |-> tagAdd(tags, tagName).id]

\* getTagName(db, tagId)
getTagName(tags, tagId) ==
    IF tagId = NullTag \/ tagId = EmptyTag THEN ""
    ELSE IF \E t \in tags : t.id = tagId
    THEN (CHOOSE t \in tags : t.id = tagId).name
    ELSE ""

\* The tag reference with getOrCreateTag called whatever the label.
tagForAnyLabel(tags, msg) == getOrCreateTag(tags, msg)

\* interval.msg ? await getOrCreateTag(db, interval.msg) : null
tagFor(tags, msg) ==
    IF msg # "" THEN getOrCreateTag(tags, msg) ELSE [tags |-> tags, id |-> NullTag]

\* The entries of a map (or of the parsed legacy object) in the order they
\* are visited, each interval with the key of its bucket.
RECURSIVE entries(_, _)
entries(map, days) ==
    IF days = {} THEN <<>>
    ELSE LET day == CHOOSE d \in days : \A e \in days : d <= e
         IN  [i \in 1..Len(map[day]) |-> [date |-> day, interval |-> map[day][i]]]
                \o entries(map, days \ {day})

\* The loop of saveAllIntervals over the intervals.  Each storage operation
\* (getOrCreateTag, put) is counted in k; the operation number failAt throws
\* and what was written before it stays.
RECURSIVE putEach(_, _, _, _, _)
putEach(d, todo, existingIntervals, k, failAt) ==
    IF todo = <<>> THEN [db |-> d, k |-> k, threw |-> FALSE]
    ELSE LET interval == Head(todo).interval
             hasTag == interval.msg # ""
             tag == tagFor(d.tags, interval.msg)
             k1 == IF hasTag THEN k + 1 ELSE k
             existing == {r \in existingIntervals :
                            r.identifier = interval.identifier}
             id == IF existing # {} THEN LastOf(existing).id
                   ELSE NewKey(d.intervals)
             intervalRecord == IntervalRecord(id, interval, tag.id, Head(todo).date)
         IN  IF hasTag /\ failAt = k + 1
             THEN [db |-> d, k |-> k, threw |-> TRUE]
             ELSE IF failAt = k1 + 1
             THEN [db |-> [d EXCEPT !.tags = tag.tags], k |-> k1, threw |-> TRUE]
             ELSE putEach([d EXCEPT !.tags = tag.tags,
                                    !.intervals = put(d.intervals, intervalRecord)],
                          Tail(todo), existingIntervals, k1 + 1, failAt)

\* The loop of saveAllIntervals that deletes the records whose identifier is
\* in no bucket any more, in the order of their keys.
RECURSIVE deleteEach(_, _, _, _, _)
deleteEach(d, existingIntervals, currentIdentifiers, k, failAt) ==
    IF existingIntervals = {} THEN [db |-> d, threw |-> FALSE]
    ELSE LET existing == FirstOf(existingIntervals)
             rest == existingIntervals \ {existing}
         IN  IF existing.identifier \in currentIdentifiers
             THEN deleteEach(d, rest, currentIdentifiers, k, failAt)
             ELSE IF failAt = k + 1
             THEN [db |-> d, threw |-> TRUE]
             ELSE deleteEach([d EXCEPT !.intervals = d.intervals \ {existing}],
                             rest, currentIdentifiers, k + 1, failAt)

\* saveAllIntervals that ends by deleting the tags no record refers to.
saveAllIntervalsCollectsTags(d, map, failAt) ==
    LET opened == getDB(d)
        existingIntervals == opened.intervals
        currentIdentifiers == {r.identifier : r \in Stored(map)}
        puts == putEach(opened, entries(map, DOMAIN map), existingIntervals,
                        1, failAt)
        deletes == deleteEach(puts.db, existingIntervals, currentIdentifiers,
                              puts.k, failAt)
    IN  IF failAt = 1 THEN [db |-> opened, threw |-> TRUE]
        ELSE IF puts.threw THEN [db |-> puts.db, threw |-> TRUE]
        ELSE IF deletes.threw THEN deletes
        ELSE [db |-> [deletes.db EXCEPT !.tags =
                        {t \in deletes.db.tags :
                            \E r \in deletes.db.intervals : r.tagId = t.id}],
              threw |-> FALSE]

\* saveAllIntervals(calendar): getAll (operation 1), the puts, the deletes.
\* Every operation is its own transaction.
saveAllIntervals(d, map, failAt) ==
    LET opened == getDB(d)
        existingIntervals == opened.intervals
        currentIdentifiers == {r.identifier : r \in Stored(map)}
        puts == putEach(opened, entries(map, DOMAIN map), existingIntervals,
                        1, failAt)
    IN  IF failAt = 1 THEN [db |-> opened, threw |-> TRUE]
        ELSE IF puts.threw THEN [db |-> puts.db, threw |-> TRUE]
        ELSE deleteEach(puts.db, existingIntervals, currentIdentifiers,
                        puts.k, failAt)

\* A call of saveAllIntervals: where it is (idle: no call; getAll: the
\* database is open and getAll requested; put: in the loop over the
\* intervals; delete: in the loop over the records read; returned), its
\* argument, the records getAll gave it, the entries and the records still to
\* visit, and whether another call was in flight during it.
SaveCall(pc, map, existingIntervals, todo, deletes, overlapped) ==
    [pc |-> pc, calendar |-> map, existingIntervals |-> existingIntervals,
     todo |-> todo, deletes |-> deletes, overlapped |-> overlapped]

MaxSaves == 2

NoSaveCall == SaveCall("idle", <<>>, {}, <<>>, {}, FALSE)

NoSaveCalls == [p \in 1..MaxSaves |-> NoSaveCall]

InFlight(call) == call.pc \in {"getAll", "put", "delete"}

\* Where a call goes when it leaves an await of the loop over the intervals:
\* to the next interval, or to the first record to delete, or to its end.
afterPut(call, todo) ==
    LET currentIdentifiers == {r.identifier : r \in Stored(call.calendar)}
        deletes == {r \in call.existingIntervals :
                        r.identifier \notin currentIdentifiers}
    IN  IF todo # <<>> THEN [call EXCEPT !.todo = todo]
        ELSE [call EXCEPT !.todo = todo, !.deletes = deletes,
                          !.pc = IF deletes = {} THEN "returned" ELSE "delete"]

\* Where a call goes when it leaves an await of the loop over the records.
afterDelete(call, deletes) ==
    [call EXCEPT !.deletes = deletes,
                 !.pc = IF deletes = {} THEN "returned" ELSE "delete"]

\* getAllIntervals(): the records grouped by date, the label read from the
\* tag; in the order of the keys.
RECURSIVE groupByDate(_, _, _)
groupByDate(map, records, tags) ==
    IF records = {} THEN map
    ELSE LET record == FirstOf(records)
         IN  groupByDate(
                MapSet(map, record.date,
                    Append(Bucket(map, record.date),
                        DateInterval(record.identifier, record.start, record.end,
                                     getTagName(tags, record.tagId)))),
                records \ {record}, tags)

\* getAllIntervals that does not read the tags.
getAllIntervalsForgetsTags(d) == groupByDate(<<>>, getDB(d).intervals, {})

\* getAllIntervals() of the schema-1 module: the intervals of every record
\* under its date, start and end made dates again.
getAllIntervals1(d) ==
    [date \in DOMAIN getDB1(d).days |->
        [i \in 1..Len(getDB1(d).days[date]) |->
            [getDB1(d).days[date][i] EXCEPT
                !.start = getDB1(d).days[date][i].start,
                !.end = getDB1(d).days[date][i].end]]]

getAllIntervals(d) == groupByDate(<<>>, getDB(d).intervals, getDB(d).tags)

\* The loop of migrateFromLocalStorage (schema 2) over the legacy intervals:
\* getOrCreateTag and add, counted as in putEach.
RECURSIVE addEach(_, _, _, _)
addEach(d, todo, k, failAt) ==
    IF todo = <<>> THEN [db |-> d, threw |-> FALSE]
    ELSE LET legacy == Head(todo).interval
             interval == DateInterval(legacy.identifier, DateOfJSON(legacy.start),
                            IF legacy.end # <<>> THEN DateOfJSON(legacy.end)
                            ELSE NoDate, legacy.msg)
             hasTag == interval.msg # ""
             tag == tagFor(d.tags, interval.msg)
             k1 == IF hasTag THEN k + 1 ELSE k
             intervalRecord == IntervalRecord(NewKey(d.intervals), interval,
                                              tag.id, Head(todo).date)
         IN  IF hasTag /\ failAt = k + 1
             THEN [db |-> d, threw |-> TRUE]
             ELSE IF failAt = k1 + 1
             THEN [db |-> [d EXCEPT !.tags = tag.tags], threw |-> TRUE]
             ELSE addEach([d EXCEPT !.tags = tag.tags,
                                    !.intervals = d.intervals \cup {intervalRecord}],
                          Tail(todo), k1 + 1, failAt)

\* migrateFromLocalStorage that leaves the item in place after it migrated.
migrateFromLocalStorageKeepsItem(d, item, failAt) ==
    LET opened == getDB(d)
        adds == addEach(opened, entries(item.obj, DOMAIN item.obj), 1, failAt)
    IN  IF item.kind = "absent"
        THEN [db |-> d, item |-> item, ret |-> "false"]
        ELSE IF failAt = 1
        THEN [db |-> opened, item |-> item, ret |-> "failed"]
        ELSE IF opened.intervals # {}
        THEN [db |-> opened, item |-> NoItem, ret |-> "false"]
        ELSE IF item.kind = "garbage"
        THEN [db |-> opened, item |-> item, ret |-> "false"]
        ELSE IF adds.threw
        THEN [db |-> adds.db, item |-> item, ret |-> "failed"]
        ELSE [db |-> adds.db, item |-> item, ret |-> "true"]

\* migrateFromLocalStorage() of the schema-2 module: nothing when the item is
\* absent; getDB and getAll (operation 1); the item removed with nothing
\* written when the store holds records; else every legacy interval added
\* and the item removed.  An error is caught: false is returned and what was
\* written stays, with the item.  ret is "true", "false", or "failed" for the
\* false that comes out of the catch block after a storage operation threw.
migrateFromLocalStorage(d, item, failAt) ==
    LET opened == getDB(d)
        adds == addEach(opened, entries(item.obj, DOMAIN item.obj), 1, failAt)
    IN  IF item.kind = "absent"
        THEN [db |-> d, item |-> item, ret |-> "false"]
        ELSE IF failAt = 1
        THEN [db |-> opened, item |-> item, ret |-> "failed"]
        ELSE IF opened.intervals # {}
        THEN [db |-> opened, item |-> NoItem, ret |-> "false"]
        ELSE IF item.kind = "garbage"
        THEN [db |-> opened, item |-> item, ret |-> "false"]
        ELSE IF adds.threw
        THEN [db |-> adds.db, item |-> item, ret |-> "failed"]
        ELSE [db |-> adds.db, item |-> NoItem, ret |-> "true"]

\* migrateFromLocalStorage() of the schema-1 module: every bucket of the
\* legacy object put in one transaction, then the item removed.  When an
\* operation throws (fails) the transaction is aborted and nothing is written.
migrateFromLocalStorage1(d, item, fails) ==
    LET opened == getDB1(d)
        legacy == objToMap(item.obj)
    IN  IF item.kind = "absent"
        THEN [db |-> d, item |-> item, ret |-> "false"]
        ELSE IF item.kind = "garbage"
        THEN [db |-> d, item |-> item, ret |-> "false"]
        ELSE IF fails
        THEN [db |-> opened, item |-> item, ret |-> "failed"]
        ELSE [db |-> [opened EXCEPT !.days =
                        [date \in DOMAIN opened.days \cup DOMAIN legacy |->
                            IF date \in DOMAIN legacy THEN legacy[date]
                            ELSE opened.days[date]]],
              item |-> NoItem, ret |-> "true"]

\* --------------------------------------------------------------- addInterval
\* The date addIntervalCalendar takes for "now": the shown date when its day
\* of the month differs from today's, the current time otherwise.
NowDate(showing, t) == IF getDate(showing) # getDate(t) THEN showing ELSE t

\* The single-running scan of addIntervalCalendar: every interval with no end
\* in the bucket of (dateInterval.start || nowDate) gets end = crop(nowDate).
\* The array is changed in place, so the change stays in the calendar that
\* addInterval copies.
StopRunning(cal, dateInterval, showing, t) ==
    LET nowDate == NowDate(showing, t)
        day == DayKey(IF dateInterval.start # NoDate
                      THEN dateInterval.start ELSE nowDate)
        currentIntervals == Bucket(cal, day)
    IN  IF \E i \in 1..Len(currentIntervals) : currentIntervals[i].end = NoDate
        THEN MapSet(cal, day,
                [i \in 1..Len(currentIntervals) |->
                    IF currentIntervals[i].end = NoDate
                    THEN [currentIntervals[i] EXCEPT
                            !.end = cropDateToHoursMinutes(nowDate)]
                    ELSE currentIntervals[i]])
        ELSE cal

\* The record addInterval stores: start defaulted to the current time, start
\* and end cropped, the identifier generated when the caller gave none.
NewRecord(dateInterval, t, gen) ==
    LET withStart == [dateInterval EXCEPT
                        !.start = IF dateInterval.start = NoDate
                                  THEN t ELSE dateInterval.start]
        cropped == cropDayInterval(withStart)
    IN  [cropped EXCEPT
            !.identifier = IF dateInterval.identifier # NoId
                           THEN dateInterval.identifier ELSE gen]

\* addInterval with the record put first in the bucket instead of last.
addIntervalPrepend(ddI, dateInterval, t, gen) ==
    LET start == IF dateInterval.start = NoDate THEN t ELSE dateInterval.start
        day == DayKey(start)
    IN  MapSet(ddI, day, <<NewRecord(dateInterval, t, gen)>> \o Bucket(ddI, day))

\* addInterval with the record put in the bucket of the current day, whatever
\* its start.
addIntervalToday(ddI, dateInterval, t, gen) ==
    MapSet(ddI, DayKey(t),
           Append(Bucket(ddI, DayKey(t)), NewRecord(dateInterval, t, gen)))

\* addInterval(ddI, dateInterval): the record appended to the bucket of the
\* day of its (uncropped) start; the bucket is created when absent.
addInterval(ddI, dateInterval, t, gen) ==
    LET start == IF dateInterval.start = NoDate THEN t ELSE dateInterval.start
        day == DayKey(start)
    IN  MapSet(ddI, day, Append(Bucket(ddI, day), NewRecord(dateInterval, t, gen)))

\* addIntervalCalendar with the scan done whatever the toggle.
addIntervalCalendarAlwaysScan(cal, dateInterval, toggle, showing, t, gen) ==
    addInterval(StopRunning(cal, dateInterval, showing, t), dateInterval, t, gen)

\* addIntervalCalendar: the scan when the toggle is on, then addInterval; the
\* second setCalendar replaces what the first one set.
addIntervalCalendar(cal, dateInterval, toggle, showing, t, gen) ==
    addInterval(IF toggle THEN StopRunning(cal, dateInterval, showing, t) ELSE cal,
                dateInterval, t, gen)

\* -------------------------------------------------------------- stopInterval
\* stopInterval without the test of the argument's end.
stopIntervalNoEndCheck(cal, dateInterval, t) ==
    IF dateInterval.start = NoDate
    THEN [cal |-> cal, ret |-> Ret("threw", NoId)]
    ELSE LET croppedInterval == cropDayInterval(dateInterval)
             day == DayKey(croppedInterval.start)
             existingIntervals == Bucket(cal, day)
             index == findIndex(existingIntervals, croppedInterval.identifier)
         IN  [cal |-> IF index # 0
                      THEN MapSet(cal, day,
                              [existingIntervals EXCEPT
                                  ![index].end = cropDateToHoursMinutes(t)])
                      ELSE cal,
              ret |-> Ret("id", croppedInterval.identifier)]

\* The calendar and the returned value of stopInterval(dateInterval).
stopInterval(cal, dateInterval, t) ==
    IF dateInterval.end # NoDate
    THEN [cal |-> cal, ret |-> Ret("null", NoId)]
    ELSE IF dateInterval.start = NoDate
    THEN [cal |-> cal, ret |-> Ret("threw", NoId)]
    ELSE LET croppedInterval == cropDayInterval(dateInterval)
             day == DayKey(croppedInterval.start)
             existingIntervals == Bucket(cal, day)
             index == findIndex(existingIntervals, croppedInterval.identifier)
         IN  [cal |-> IF index # 0
                      THEN MapSet(cal, day,
                              [existingIntervals EXCEPT
                                  ![index].end = cropDateToHoursMinutes(t)])
                      ELSE cal,
              ret |-> Ret("id", croppedInterval.identifier)]

\* ------------------------------------------------------------ resumeInterval
\* 60 * 1000 milliseconds: one minute.
ResumeWindow == TicksPerMinute

\* canResumeInterval: less than a minute since the end of the argument.
canResumeInterval(dateInterval, t) ==
    \/ dateInterval.end = NoDate
    \/ t - dateInterval.end < ResumeWindow

\* The interval of the fresh start with the label forgotten.
ResumedIntervalNoLabel(dateInterval, t, gen) ==
    DateInterval(gen, cropDateToHoursMinutes(t), NoDate, "")

\* The interval of the fresh start: a generated identifier, start = the
\* current time cropped, no end, the label of the argument.
ResumedInterval(dateInterval, t, gen) ==
    DateInterval(gen, cropDateToHoursMinutes(t), NoDate, dateInterval.msg)

\* resumeInterval whose fast resume forgets the label of the record.
resumeIntervalForgetsLabel(cal, dateInterval, toggle, showing, t, gen) ==
    IF dateInterval.end = NoDate
    THEN [cal |-> cal, ret |-> Ret("null", NoId), generated |-> FALSE]
    ELSE IF canResumeInterval(dateInterval, t)
    THEN IF dateInterval.start = NoDate
         THEN [cal |-> cal, ret |-> Ret("threw", NoId), generated |-> FALSE]
         ELSE LET croppedInterval == cropDayInterval(dateInterval)
                  day == DayKey(croppedInterval.start)
                  existingIntervals == Bucket(cal, day)
                  index == findIndex(existingIntervals, croppedInterval.identifier)
              IN  [cal |-> IF index # 0
                           THEN MapSet(cal, day,
                                   [existingIntervals EXCEPT ![index].end = NoDate,
                                                              ![index].msg = ""])
                           ELSE cal,
                   ret |-> Ret("id", croppedInterval.identifier),
                   generated |-> FALSE]
    ELSE LET newInterval == ResumedInterval(dateInterval, t, gen)
         IN  [cal |-> addIntervalCalendar(cal, newInterval, toggle, showing, t, gen),
              ret |-> Ret("id", newInterval.identifier),
              generated |-> TRUE]

\* The calendar, the returned value and whether an identifier was generated.
resumeInterval(cal, dateInterval, toggle, showing, t, gen) ==
    IF dateInterval.end = NoDate
    THEN [cal |-> cal, ret |-> Ret("null", NoId), generated |-> FALSE]
    ELSE IF canResumeInterval(dateInterval, t)
    THEN IF dateInterval.start = NoDate
         THEN [cal |-> cal, ret |-> Ret("threw", NoId), generated |-> FALSE]
         ELSE LET croppedInterval == cropDayInterval(dateInterval)
                  day == DayKey(croppedInterval.start)
                  existingIntervals == Bucket(cal, day)
                  index == findIndex(existingIntervals, croppedInterval.identifier)
              IN  [cal |-> IF index # 0
                           THEN MapSet(cal, day,
                                   [existingIntervals EXCEPT ![index].end = NoDate])
                           ELSE cal,
                   ret |-> Ret("id", croppedInterval.identifier),
                   generated |-> FALSE]
    ELSE LET newInterval == ResumedInterval(dateInterval, t, gen)
         IN  [cal |-> addIntervalCalendar(cal, newInterval, toggle, showing, t, gen),
              ret |-> Ret("id", newInterval.identifier),
              generated |-> TRUE]

\* ------------------------------------------------------------ deleteInterval
\* deleteInterval that keeps the key of a bucket it has emptied.
deleteIntervalKeepsKey(cal, dateInterval) ==
    IF dateInterval.start = NoDate
    THEN [cal |-> cal, ret |-> Ret("required", NoId)]
    ELSE LET croppedInterval == cropDayInterval(dateInterval)
             day == DayKey(croppedInterval.start)
             existingIntervals == Bucket(cal, day)
             index == findIndex(existingIntervals, croppedInterval.identifier)
             spliced == [i \in 1..(Len(existingIntervals) - 1) |->
                            IF i < index THEN existingIntervals[i]
                            ELSE existingIntervals[i + 1]]
         IN  IF Len(existingIntervals) = 0
             THEN [cal |-> cal, ret |-> Ret("nointervals", NoId)]
             ELSE IF index # 0
             THEN [cal |-> MapSet(cal, day, spliced), ret |-> Ret("null", NoId)]
             ELSE [cal |-> cal, ret |-> Ret("notfound", NoId)]

\* deleteInterval that takes the last record out of the bucket.
deleteIntervalRemovesLast(cal, dateInterval) ==
    IF dateInterval.start = NoDate
    THEN [cal |-> cal, ret |-> Ret("required", NoId)]
    ELSE LET croppedInterval == cropDayInterval(dateInterval)
             day == DayKey(croppedInterval.start)
             existingIntervals == Bucket(cal, day)
             index == findIndex(existingIntervals, croppedInterval.identifier)
             spliced == [i \in 1..(Len(existingIntervals) - 1) |->
                            existingIntervals[i]]
         IN  IF Len(existingIntervals) = 0
             THEN [cal |-> cal, ret |-> Ret("nointervals", NoId)]
             ELSE IF index # 0
             THEN [cal |-> IF Len(spliced) = 0 THEN MapDelete(cal, day)
                           ELSE MapSet(cal, day, spliced),
                   ret |-> Ret("null", NoId)]
             ELSE [cal |-> cal, ret |-> Ret("notfound", NoId)]

\* deleteInterval(dateInterval)
deleteInterval(cal, dateInterval) ==
    IF dateInterval.start = NoDate
    THEN [cal |-> cal, ret |-> Ret("required", NoId)]
    ELSE LET croppedInterval == cropDayInterval(dateInterval)
             day == DayKey(croppedInterval.start)
             existingIntervals == Bucket(cal, day)
             index == findIndex(existingIntervals, croppedInterval.identifier)
             spliced == [i \in 1..(Len(existingIntervals) - 1) |->
                            IF i < index THEN existingIntervals[i]
                            ELSE existingIntervals[i + 1]]
         IN  IF Len(existingIntervals) = 0
             THEN [cal |-> cal, ret |-> Ret("nointervals", NoId)]
             ELSE IF index # 0
             THEN [cal |-> IF Len(spliced) = 0 THEN MapDelete(cal, day)
                           ELSE MapSet(cal, day, spliced),
                   ret |-> Ret("null", NoId)]
             ELSE [cal |-> cal, ret |-> Ret("notfound", NoId)]

\* ------------------------------------------------------------ updateInterval
\* updateInterval that takes the record out and puts the new one last.
updateIntervalPutsLast(cal, dateInterval, descs) ==
    IF dateInterval.start = NoDate
    THEN [cal |-> cal, ret |-> Ret("required", NoId), descriptions |-> descs]
    ELSE LET croppedInterval == cropDayInterval(dateInterval)
             day == DayKey(croppedInterval.start)
             existingIntervals == Bucket(cal, day)
             index == findIndex(existingIntervals, croppedInterval.identifier)
             updated == [i \in 1..Len(existingIntervals) |->
                            IF i < index THEN existingIntervals[i]
                            ELSE IF i < Len(existingIntervals)
                            THEN existingIntervals[i + 1]
                            ELSE croppedInterval]
             newDescriptions == [i \in 1..Len(updated) |-> updated[i].msg]
         IN  IF Len(existingIntervals) = 0
             THEN [cal |-> cal, ret |-> Ret("nointervals", NoId),
                   descriptions |-> descs]
             ELSE IF index # 0
             THEN [cal |-> MapSet(cal, day, updated),
                   ret |-> Ret("id", croppedInterval.identifier),
                   descriptions |-> IF newDescriptions # descs
                                    THEN SortUnique(newDescriptions) ELSE descs]
             ELSE [cal |-> cal, ret |-> Ret("notfound", NoId),
                   descriptions |-> descs]

\* The calendar, the returned value and the descriptions.
updateInterval(cal, dateInterval, descs) ==
    IF dateInterval.start = NoDate
    THEN [cal |-> cal, ret |-> Ret("required", NoId), descriptions |-> descs]
    ELSE LET croppedInterval == cropDayInterval(dateInterval)
             day == DayKey(croppedInterval.start)
             existingIntervals == Bucket(cal, day)
             index == findIndex(existingIntervals, croppedInterval.identifier)
             updated == [existingIntervals EXCEPT ![index] = croppedInterval]
             newDescriptions == [i \in 1..Len(updated) |-> updated[i].msg]
         IN  IF Len(existingIntervals) = 0
             THEN [cal |-> cal, ret |-> Ret("nointervals", NoId),
                   descriptions |-> descs]
             ELSE IF index # 0
             THEN [cal |-> MapSet(cal, day, updated),
                   ret |-> Ret("id", croppedInterval.identifier),
                   descriptions |-> IF newDescriptions # descs
                                    THEN SortUnique(newDescriptions) ELSE descs]
             ELSE [cal |-> cal, ret |-> Ret("notfound", NoId),
                   descriptions |-> descs]

\* getDescriptions()
getDescriptions(descs) ==
    IF Len(descs) > 0 THEN descs ELSE <<"No descriptions available">>

\* ------------------------------------------------------------------- inputs
\* The arguments given to addInterval: no identifier or a stored one; no
\* start, the current time or the shown date, with no end, or the current
\* time as start and end; any label.
AddArgs ==
    {DateInterval(id, se[1], se[2], msg) :
        id \in {NoId} \cup {r.identifier : r \in Stored(calendar)},
        se \in {<<NoDate, NoDate>>, <<now, NoDate>>, <<showingDate, NoDate>>,
                <<now, now>>},
        msg \in Labels}

\* Another day than the day of a date.
OtherDay(date) ==
    IF date + TicksPerDay <= MaxTime THEN date + TicksPerDay
    ELSE IF date >= TicksPerDay THEN date - TicksPerDay ELSE date

\* An interval the calendar does not hold, Running and Closed.
Unknown == {DateInterval(CallerId, now, NoDate, ""),
            DateInterval(CallerId, now, now, "")}

\* The arguments given to stopInterval, resumeInterval and deleteInterval:
\* what the interface holds for a stored interval, which is the stored
\* record, a stale copy of it (its end absent, or set), a copy whose start was
\* edited to another day or removed, and an interval the calendar does not
\* hold.
CallArgs ==
    UNION {{r,
            [r EXCEPT !.end = IF r.end = NoDate THEN now ELSE NoDate],
            [r EXCEPT !.start = OtherDay(r.start)],
            [r EXCEPT !.start = NoDate]} : r \in Stored(calendar)}
        \cup Unknown

\* The arguments given to updateInterval: a stored interval with one field
\* edited (label, end, start), and an interval the calendar does not hold.
UpdateArgs ==
    UNION {{[r EXCEPT !.msg = IF r.msg = "" THEN "w" ELSE ""],
            [r EXCEPT !.end = IF r.end = NoDate THEN now ELSE NoDate],
            [r EXCEPT !.start = now],
            [r EXCEPT !.start = OtherDay(r.start)],
            [r EXCEPT !.start = NoDate]} : r \in Stored(calendar)}
        \cup Unknown

\* Math.random().toString(36).substring(2, 15): an identifier that no stored
\* interval has and that no caller holds.
GenId == CHOOSE id \in 1..MaxIds : \A r \in Stored(calendar) : r.identifier # id

\* The call recorded in lastOp: the operation, the value it returned and,
\* for stopInterval, the time of the call.
Call(op, ret) ==
    [op |-> op, ret |-> ret, time |-> IF op = "stop" THEN now ELSE NoDate]

\* No call recorded.
NoCall == [op |-> "none", ret |-> Ret("void", NoId), time |-> NoDate]

\* ------------------------------------------------------------------ actions
\* The provider mounts on an empty localStorage, at a time that is not a
\* whole minute.
Init ==
    /\ calendar = <<>>
    /\ isStopLastIntervalOnAdd = TRUE
    /\ descriptions = <<>>
    /\ now = 1
    /\ showingDate = now
    /\ lastOp = NoCall
    /\ quotaExceeded = FALSE
    /\ localStorage = saveCalendar(NoItem, <<>>, FALSE)
    /\ db = NoDB
    /\ tagCalls = NoTagCalls
    /\ saveCalls = NoSaveCalls

\* Time passes.
Tick ==
    /\ now < MaxTime
    /\ now' = now + 1
    /\ UNCHANGED <<calendar, isStopLastIntervalOnAdd, descriptions, showingDate,
                   lastOp, localStorage, quotaExceeded, db, tagCalls, saveCalls>>

\* A past date is clicked: setShowingDate(date), date among getDates().
SetShowingDate(date) ==
    /\ date \in getDates(calendar)
    /\ showingDate' = date
    /\ UNCHANGED <<calendar, isStopLastIntervalOnAdd, descriptions, now, lastOp,
                   localStorage, quotaExceeded, db, tagCalls, saveCalls>>

\* The toggle button: setIsStopLastIntervalOnAdd(!getIsStopLastIntervalOnAdd()).
Toggle ==
    /\ isStopLastIntervalOnAdd' = ~isStopLastIntervalOnAdd
    /\ UNCHANGED <<calendar, descriptions, showingDate, now, lastOp,
                   localStorage, quotaExceeded, db, tagCalls, saveCalls>>

\* The save effect, which runs after a render that follows a setCalendar
\* (setCalled): the new calendar is written to localStorage.
SaveEffect(setCalled) ==
    /\ localStorage' = IF setCalled
                       THEN saveCalendar(localStorage, calendar', quotaExceeded)
                       ELSE localStorage
    /\ UNCHANGED <<quotaExceeded, db, tagCalls, saveCalls>>

\* stopInterval and the fast branch of resumeInterval call setCalendar when
\* they find the record of the argument.
Found(dateInterval) ==
    /\ dateInterval.start # NoDate
    /\ findIndex(getIntervals(calendar, dateInterval.start),
                 dateInterval.identifier) # 0

\* Each handler below takes its argument and whether the call is recorded in
\* lastOp (log).
AddInterval(dateInterval, log) ==
    /\ Count(calendar) < MaxIntervals
    /\ calendar' = addIntervalCalendar(calendar, dateInterval,
                        isStopLastIntervalOnAdd, showingDate, now, GenId)
    /\ lastOp' = IF log THEN Call("add", Ret("void", NoId)) ELSE lastOp
    /\ SaveEffect(TRUE)
    /\ UNCHANGED <<isStopLastIntervalOnAdd, descriptions, showingDate, now>>

StopInterval(dateInterval, log) ==
    LET r == stopInterval(calendar, dateInterval, now)
    IN  /\ calendar' = r.cal
        /\ lastOp' = IF log THEN Call("stop", r.ret) ELSE lastOp
        /\ SaveEffect(r.ret.kind = "id" /\ Found(dateInterval))
        /\ UNCHANGED <<isStopLastIntervalOnAdd, descriptions, showingDate, now>>

ResumeInterval(dateInterval, log) ==
    LET r == resumeInterval(calendar, dateInterval, isStopLastIntervalOnAdd,
                            showingDate, now, GenId)
    IN  /\ r.generated => Count(calendar) < MaxIntervals
        /\ calendar' = r.cal
        /\ lastOp' = IF log THEN Call("resume", r.ret) ELSE lastOp
        /\ SaveEffect(r.generated \/ (r.ret.kind = "id" /\ Found(dateInterval)))
        /\ UNCHANGED <<isStopLastIntervalOnAdd, descriptions, showingDate, now>>

DeleteInterval(dateInterval, log) ==
    LET r == deleteInterval(calendar, dateInterval)
    IN  /\ calendar' = r.cal
        /\ lastOp' = IF log THEN Call("delete", r.ret) ELSE lastOp
        /\ SaveEffect(r.ret.kind = "null")
        /\ UNCHANGED <<isStopLastIntervalOnAdd, descriptions, showingDate, now>>

UpdateInterval(dateInterval, log) ==
    LET r == updateInterval(calendar, dateInterval, descriptions)
    IN  /\ calendar' = r.cal
        /\ descriptions' = r.descriptions
        /\ lastOp' = IF log THEN Call("update", r.ret) ELSE lastOp
        /\ SaveEffect(r.ret.kind = "id")
        /\ UNCHANGED <<isStopLastIntervalOnAdd, showingDate, now>>

\* The page is loaded again: the provider mounts, its state is initialized
\* (the calendar from localStorage) and the save effect runs.
Reload(log) ==
    /\ calendar' = loadCalendar(localStorage).calendar
    /\ isStopLastIntervalOnAdd' = TRUE
    /\ descriptions' = <<>>
    /\ showingDate' = now
    /\ lastOp' = IF ~log THEN NoCall
                 ELSE IF loadCalendar(localStorage).threw
                 THEN Call("load", Ret("threw", NoId))
                 ELSE Call("load", Ret("void", NoId))
    /\ SaveEffect(TRUE)
    /\ UNCHANGED now

\* localStorage fills up, or room is made in it.
Quota ==
    /\ quotaExceeded' = ~quotaExceeded
    /\ UNCHANGED <<calendar, isStopLastIntervalOnAdd, descriptions, showingDate,
                   now, lastOp, localStorage, db, tagCalls, saveCalls>>

\* The item is removed (localStorage.removeItem("calendar"), or the site data
\* is cleared), or a text that is not JSON is written over it.
Overwrite(item) ==
    /\ localStorage' = item
    /\ UNCHANGED <<calendar, isStopLastIntervalOnAdd, descriptions, showingDate,
                   now, lastOp, quotaExceeded, db, tagCalls, saveCalls>>

\* The store under every operation.
Next ==
    \/ Tick
    \/ \E date \in getDates(calendar) : SetShowingDate(date)
    \/ Toggle
    \/ \E dateInterval \in AddArgs : AddInterval(dateInterval, FALSE)
    \/ \E dateInterval \in CallArgs : StopInterval(dateInterval, FALSE)
    \/ \E dateInterval \in CallArgs : ResumeInterval(dateInterval, FALSE)
    \/ \E dateInterval \in CallArgs : DeleteInterval(dateInterval, FALSE)
    \/ \E dateInterval \in UpdateArgs : UpdateInterval(dateInterval, FALSE)

Spec == Init /\ [][Next]_vars

\* The store with the single-running toggle left on, under addInterval,
\* stopInterval, resumeInterval and deleteInterval, each call recorded.
NextPolicyOn ==
    \/ Tick
    \/ \E date \in getDates(calendar) : SetShowingDate(date)
    \/ \E dateInterval \in AddArgs : AddInterval(dateInterval, TRUE)
    \/ \E dateInterval \in CallArgs : StopInterval(dateInterval, TRUE)
    \/ \E dateInterval \in CallArgs : ResumeInterval(dateInterval, TRUE)
    \/ \E dateInterval \in CallArgs : DeleteInterval(dateInterval, TRUE)

SpecPolicyOn == Init /\ [][NextPolicyOn]_vars

\* The same with the toggle button.
NextCalls ==
    \/ NextPolicyOn
    \/ Toggle

SpecCalls == Init /\ [][NextCalls]_vars

\* The editing of the intervals: addInterval, updateInterval and
\* deleteInterval as time passes, each call recorded.
NextEdits ==
    \/ Tick
    \/ \E dateInterval \in AddArgs : AddInterval(dateInterval, TRUE)
    \/ \E dateInterval \in UpdateArgs : UpdateInterval(dateInterval, TRUE)
    \/ \E dateInterval \in CallArgs : DeleteInterval(dateInterval, TRUE)

SpecEdits == Init /\ [][NextEdits]_vars

\* The store and its localStorage item within one minute: the five calls,
\* the page loaded again (recorded), the quota reached or not, and the item
\* removed or overwritten with a text that is not JSON.
NextStorage ==
    \/ \E dateInterval \in AddArgs : AddInterval(dateInterval, FALSE)
    \/ \E dateInterval \in CallArgs : StopInterval(dateInterval, FALSE)
    \/ \E dateInterval \in CallArgs : ResumeInterval(dateInterval, FALSE)
    \/ \E dateInterval \in CallArgs : DeleteInterval(dateInterval, FALSE)
    \/ \E dateInterval \in UpdateArgs : UpdateInterval(dateInterval, FALSE)
    \/ Reload(TRUE)
    \/ Quota
    \/ \E item \in {NoItem, NotJSON} : Overwrite(item)

SpecStorage == Init /\ [][NextStorage]_vars

\* ---------------------------------------------------------- IndexedDB actions
\* The calendars given to saveAllIntervals and found in the legacy item: up
\* to MaxIntervals intervals of identifiers 1..MaxSavedIds, started at the
\* midnight of a day, the first identifier running and the others ended a
\* minute later, labelled or not after the identifier and the day.  Two
\* intervals can share an identifier, as in the calendars addInterval builds
\* from a caller's identifier.
MaxSavedIds == 2
MaxFailAt == 5

SavedIntervals ==
    {DateInterval(id, DateOfKey(day),
                  IF id = 1 THEN NoDate ELSE DateOfKey(day) + TicksPerMinute,
                  IF (id + day) % 2 = 1 THEN "w" ELSE "") :
        id \in 1..MaxSavedIds, day \in {DayKey(t) : t \in 0..MaxTime}}

Calendars ==
    {<<>>}
    \cup {addInterval(<<>>, a, a.start, NoId) : a \in SavedIntervals}
    \cup (IF MaxIntervals < 2 THEN {}
          ELSE {addInterval(addInterval(<<>>, a, a.start, NoId), b, b.start, NoId) :
                    a \in SavedIntervals, b \in SavedIntervals})

\* The operation that throws, 0 for none.
FailPoints == 0..MaxFailAt

\* What the handlers of the provider own.
providerVars ==
    <<calendar, isStopLastIntervalOnAdd, descriptions, showingDate, now,
      quotaExceeded>>

\* The version of the application that came before IndexedDB writes the item
\* 'calendar' (the save effect), or the item is removed or made unparseable.
SetItem(item) ==
    /\ db.version = 0
    /\ localStorage' = item
    /\ lastOp' = Call("setItem", Ret("void", NoId))
    /\ UNCHANGED <<providerVars, db, tagCalls, saveCalls>>

\* A run of migrateFromLocalStorage recorded with what it returned and, when
\* the call recorded before it was a run of the same function, with what
\* that run returned.
Run(op, ret) ==
    [op |-> op, ret |-> Ret(ret, NoId), time |-> NoDate,
     after |-> IF lastOp.op = op THEN lastOp.ret.kind ELSE "none"]

\* migrateFromLocalStorage() of the schema-1 module.  Version 1 cannot be
\* opened once the database is at version 2.
MigrateFromLocalStorage1(fails) ==
    LET r == migrateFromLocalStorage1(db, localStorage, fails)
    IN  /\ db.version <= 1
        /\ db' = r.db
        /\ localStorage' = r.item
        /\ lastOp' = Run("migrate1", r.ret)
        /\ UNCHANGED <<providerVars, tagCalls, saveCalls>>

\* getAllIntervals() of the schema-2 module: it opens the database and reads.
GetAllIntervals ==
    /\ db' = getDB(db)
    /\ lastOp' = Call("getAll", Ret("void", NoId))
    /\ UNCHANGED <<providerVars, localStorage, tagCalls, saveCalls>>

\* migrateFromLocalStorage() of the schema-2 module.
MigrateFromLocalStorage(failAt) ==
    LET r == migrateFromLocalStorage(db, localStorage, failAt)
    IN  /\ db' = r.db
        /\ localStorage' = r.item
        /\ lastOp' = Run("migrate", r.ret)
        /\ UNCHANGED <<providerVars, tagCalls, saveCalls>>

\* saveAllIntervals(map), run alone; log records the call with its argument.
SaveAllIntervals(map, failAt, log) ==
    LET r == saveAllIntervals(db, map, failAt)
        ret == Ret(IF r.threw THEN "threw" ELSE "void", NoId)
    IN  /\ db' = r.db
        /\ lastOp' = IF log
                      THEN [op |-> "save", ret |-> ret, time |-> NoDate,
                            calendar |-> map]
                      ELSE Call("save", ret)
        /\ UNCHANGED <<providerVars, localStorage, tagCalls, saveCalls>>

\* IndexedDB runs the readwrite transactions of a store one after the other,
\* in the order they were created: the requests of a transaction are served
\* when every transaction created before it is finished.
txRuns(queue, p) == queue # <<>> /\ Head(queue) = p

\* The arguments of the calls of getOrCreateTag.
TagNames == {"", "w", "x"}

tagVars == <<providerVars, lastOp, localStorage, saveCalls>>

\* getOrCreateTag(db, tagName) is called: it returns 0 for an empty name, else
\* it creates its transaction and requests index.get.
GetOrCreateTag(p, tagName) ==
    /\ tagCalls.call[p].pc = "idle"
    /\ db' = getDB(db)
    /\ tagCalls' =
            IF tagName = ""
            THEN [tagCalls EXCEPT
                    !.call[p] = TagCall("returned", tagName, EmptyTag, FALSE)]
            ELSE [tagCalls EXCEPT
                    !.queue = Append(tagCalls.queue, p),
                    !.call[p] = TagCall("get", tagName, EmptyTag,
                                        tagCalls.queue # <<>>)]
    /\ UNCHANGED tagVars

\* await index.get(tagName): the call returns the id of the tag found, its
\* transaction finished, or goes on to add the tag.
TagGet(p) ==
    LET call == tagCalls.call[p]
        existing == byName(db.tags, call.tagName)
    IN  /\ call.pc = "get"
        /\ txRuns(tagCalls.queue, p)
        /\ tagCalls' =
                IF existing # {}
                THEN [tagCalls EXCEPT
                        !.queue = Tail(tagCalls.queue),
                        !.call[p] = [call EXCEPT !.pc = "returned",
                                                 !.ret = FirstOf(existing).id]]
                ELSE [tagCalls EXCEPT !.call[p] = [call EXCEPT !.pc = "add"]]
        /\ UNCHANGED <<tagVars, db>>

\* await tx.store.add({ name: tagName }); await tx.done: the call returns the
\* new key, or throws when the unique index refuses the name.
TagAdd(p) ==
    LET call == tagCalls.call[p]
        added == tagAdd(db.tags, call.tagName)
    IN  /\ call.pc = "add"
        /\ txRuns(tagCalls.queue, p)
        /\ db' = [db EXCEPT !.tags = added.tags]
        /\ tagCalls' =
                [tagCalls EXCEPT
                    !.queue = Tail(tagCalls.queue),
                    !.call[p] = [call EXCEPT
                        !.pc = IF added.threw THEN "threw" ELSE "returned",
                        !.ret = added.id]]
        /\ UNCHANGED tagVars

\* The caller is done with what the call returned.
TagDone(p) ==
    /\ tagCalls.call[p].pc \in {"returned", "threw"}
    /\ tagCalls' = [tagCalls EXCEPT
                        !.call[p] = TagCall("idle", "", EmptyTag, FALSE)]
    /\ UNCHANGED <<tagVars, db>>

\* Calls of getOrCreateTag that interleave at their awaits.
NextTags ==
    \/ \E p \in 1..MaxCalls, tagName \in TagNames : GetOrCreateTag(p, tagName)
    \/ \E p \in 1..MaxCalls : TagGet(p)
    \/ \E p \in 1..MaxCalls : TagAdd(p)
    \/ \E p \in 1..MaxCalls : TagDone(p)

SpecTags == Init /\ [][NextTags]_vars

\* The two storage modules over the legacy item: calls one at a time, any
\* storage operation of a call failing.
NextDB ==
    \/ \E item \in {JSONItem(mapToObj(map)) : map \in Calendars}
                    \cup {NoItem, NotJSON} : SetItem(item)
    \/ \E fails \in BOOLEAN : MigrateFromLocalStorage1(fails)
    \/ GetAllIntervals
    \/ \E failAt \in FailPoints : MigrateFromLocalStorage(failAt)
    \/ \E map \in Calendars, failAt \in FailPoints :
            SaveAllIntervals(map, failAt, FALSE)

SpecDB == Init /\ [][NextDB]_vars

\* The schema-2 module alone: the migration, any storage operation of it
\* failing, and the saves that meet no failure, recorded with the calendar
\* saved.
NextSave ==
    \/ \E item \in {JSONItem(mapToObj(map)) : map \in Calendars}
                    \cup {NoItem, NotJSON} : SetItem(item)
    \/ \E failAt \in FailPoints : MigrateFromLocalStorage(failAt)
    \/ \E map \in Calendars : SaveAllIntervals(map, 0, TRUE)

SpecSave == Init /\ [][NextSave]_vars

\* saveAllIntervals alone, any storage operation of a call failing, the calls
\* recorded with the calendar saved.
NextFailedSaves ==
    \E map \in Calendars, failAt \in FailPoints : SaveAllIntervals(map, failAt, TRUE)

SpecFailedSaves == Init /\ [][NextFailedSaves]_vars

\* The calendars whose intervals have distinct identifiers.
DistinctCalendars ==
    {map \in Calendars :
        \A p, q \in Places(map) :
            p # q => At(map, p).identifier # At(map, q).identifier}

\* The calls are started while the store has no more records than this.
MaxRecords == 2

saveVars == <<providerVars, lastOp, localStorage, tagCalls>>

\* saveAllIntervals(map) is called: await getDB(), then getAll is requested.
\* The save effect does not wait for the call it made before; calls in
\* flight together are given the same calendar.
SaveStart(p, map) ==
    LET others == {q \in 1..MaxSaves : q # p /\ InFlight(saveCalls[q])}
    IN  /\ saveCalls[p].pc = "idle"
        /\ Cardinality(db.intervals) <= MaxRecords
        /\ \A q \in others : saveCalls[q].calendar = map
        /\ db' = getDB(db)
        /\ saveCalls' =
                [q \in 1..MaxSaves |->
                    IF q = p
                    THEN SaveCall("getAll", map, {}, <<>>, {}, others # {})
                    ELSE IF q \in others
                    THEN [saveCalls[q] EXCEPT !.overlapped = TRUE]
                    ELSE saveCalls[q]]
        /\ UNCHANGED saveVars

\* await db.getAll(INTERVALS_STORE): the call holds the records of this
\* moment for the rest of its run.
SaveGetAll(p) ==
    LET call == saveCalls[p]
    IN  /\ call.pc = "getAll"
        /\ saveCalls' =
                [saveCalls EXCEPT ![p] =
                    afterPut([call EXCEPT !.pc = "put",
                                          !.existingIntervals = db.intervals],
                             entries(call.calendar, DOMAIN call.calendar))]
        /\ UNCHANGED <<saveVars, db>>

\* One turn of the loop over the intervals: the tag of the label, then
\* await db.put of the record, under the key of the record getAll gave for
\* the identifier or under a new key.
SavePut(p) ==
    LET call == saveCalls[p]
    IN  /\ call.pc = "put"
        /\ db' = putEach(db, <<Head(call.todo)>>, call.existingIntervals, 1, 0).db
        /\ saveCalls' = [saveCalls EXCEPT ![p] = afterPut(call, Tail(call.todo))]
        /\ UNCHANGED saveVars

\* One await db.delete of the loop over the records getAll gave.
SaveDelete(p) ==
    LET call == saveCalls[p]
        existing == FirstOf(call.deletes)
    IN  /\ call.pc = "delete"
        /\ db' = [db EXCEPT !.intervals = {r \in db.intervals : r.id # existing.id}]
        /\ saveCalls' =
                [saveCalls EXCEPT ![p] =
                    afterDelete(call, call.deletes \ {existing})]
        /\ UNCHANGED saveVars

\* The promise of the call is settled and dropped.
SaveReturned(p) ==
    /\ saveCalls[p].pc = "returned"
    /\ saveCalls' = [saveCalls EXCEPT ![p] = NoSaveCall]
    /\ UNCHANGED <<saveVars, db>>

\* Calls of saveAllIntervals that interleave at their awaits.
NextOverlap ==
    \/ \E p \in 1..MaxSaves, map \in DistinctCalendars : SaveStart(p, map)
    \/ \E p \in 1..MaxSaves : SaveGetAll(p)
    \/ \E p \in 1..MaxSaves : SavePut(p)
    \/ \E p \in 1..MaxSaves : SaveDelete(p)
    \/ \E p \in 1..MaxSaves : SaveReturned(p)

SpecOverlap == Init /\ [][NextOverlap]_vars

\* addInterval called twice before the provider renders again (two calls in
\* one event handler, or two events React batches): both calls run in the
\* closure of the same render, so both read its calendar.  The scan of the
\* first call changes the arrays of that calendar in place and the second call
\* finds them changed; the updaters given to setCalendar ignore the state
\* they are handed and React keeps what the last one returns.  The save effect
\* runs once, after the render.
AddIntervalTwice(first, second, log) ==
    LET rendered == IF isStopLastIntervalOnAdd
                    THEN StopRunning(calendar, first, showingDate, now)
                    ELSE calendar
    IN  /\ Count(calendar) + 1 < MaxIntervals
        /\ calendar' = addIntervalCalendar(rendered, second,
                            isStopLastIntervalOnAdd, showingDate, now, GenId)
        /\ lastOp' = IF log THEN Call("addTwice", Ret("void", NoId)) ELSE lastOp
        /\ SaveEffect(TRUE)
        /\ UNCHANGED <<isStopLastIntervalOnAdd, descriptions, showingDate, now>>

\* addInterval, once or twice in a render, and stopInterval as time passes.
NextBatch ==
    \/ Tick
    \/ \E dateInterval \in AddArgs : AddInterval(dateInterval, TRUE)
    \/ \E first \in AddArgs, second \in AddArgs :
            AddIntervalTwice(first, second, TRUE)
    \/ \E dateInterval \in CallArgs : StopInterval(dateInterval, TRUE)

SpecBatch == Init /\ [][NextBatch]_vars

\* ------------------------------------------------- EditableDateInHoursMinutes
\* The dates the editor shows are wall-clock dates, counted here in whole
\* minutes since the midnight of day 0: its arithmetic is on the minutes of
\* the hour and the hours of the day, which the short days of the provider's
\* clock above do not have.
MinutesPerHour == 60
HoursPerDay == 24

\* The days the edited dates are taken from, and the greatest number typed.
MaxEditDays == 1
MaxEntered == 61

\* The dates edited: the first and the last minute of the first and of the
\* last hour of each day.
WallDates ==
    {(day * HoursPerDay + hours) * MinutesPerHour + minutes :
        day \in 0..(MaxEditDays - 1), hours \in {0, HoursPerDay - 1},
        minutes \in {0, MinutesPerHour - 1}}

\* new Date(NaN)
InvalidDate == -2

getMinutes(date) == date % MinutesPerHour

getHours(date) == (date \div MinutesPerHour) % HoursPerDay

\* The day of a wall-clock date.
wallDay(date) == date \div (HoursPerDay * MinutesPerHour)

\* Date.prototype.setMinutes(min): the minutes of the hour are replaced; a
\* value beyond the hour carries into the hours and the days.
setMinutes(date, min) == date - getMinutes(date) + min

\* e.target.value: nothing ("empty"), a text parseInt reads the number n from
\* ("number"), or a text parseInt makes NaN of ("text").
Typed(kind, n) == [kind |-> kind, n |-> n]

TypedValues ==
    {Typed("empty", 0), Typed("text", 0)}
        \cup {Typed("number", n) : n \in -1..MaxEntered}

\* onChange of the minutes field, the editor showing date at the time t:
\* whether props.onChange is called, and with what.  Every comparison with
\* NaN is false, so a text that is not a number reaches setMinutes.
minutesChanged(date, value, t) ==
    LET newDate == IF date # NoDate THEN date ELSE t
    IN  IF value.kind = "empty"
        THEN [called |-> TRUE, date |-> setMinutes(newDate, 0)]
        ELSE IF value.kind = "number" /\ (60 < value.n \/ value.n < 0)
        THEN [called |-> FALSE, date |-> date]
        ELSE IF value.kind = "number"
        THEN [called |-> TRUE, date |-> setMinutes(newDate, value.n)]
        ELSE [called |-> TRUE, date |-> InvalidDate]

\* A value is typed in the minutes field of an editor that shows date (no
\* date: the end of a Running interval) at the time t.  The edit is recorded
\* with the date the handler started from.
EditMinutes(date, value, t) ==
    LET r == minutesChanged(date, value, t)
    IN  /\ lastOp' = [op |-> "minutes", ret |-> Ret("void", NoId),
                      time |-> NoDate,
                      date |-> IF date # NoDate THEN date ELSE t,
                      shown |-> date # NoDate, value |-> value,
                      called |-> r.called, newDate |-> r.date]
        /\ UNCHANGED <<providerVars, localStorage, db, tagCalls, saveCalls>>

NextEditor ==
    \E date \in WallDates, shown \in BOOLEAN, value \in TypedValues :
        EditMinutes(IF shown THEN date ELSE NoDate, value, date)

SpecEditor == Init /\ [][NextEditor]_vars

\* ------------------------------------------------------------------ claims
Running(r) == r.end = NoDate

\* The start addInterval gives the record: the argument's, or the current time.
StartOf(dateInterval) ==
    IF dateInterval.start = NoDate THEN now ELSE dateInterval.start

\* No two intervals of cal share an identifier.
UniqueIdentifiers(cal) ==
    \A p, q \in Places(cal) :
        p # q => At(cal, p).identifier # At(cal, q).identifier

\* The step is a recorded call of op (it is not the passing of time, a click
\* on a date or on the toggle).
StepOf(op) ==
    /\ lastOp'.op = op
    /\ now' = now
    /\ showingDate' = showingDate
    /\ isStopLastIntervalOnAdd' = isStopLastIntervalOnAdd

\* C1: with the single-running toggle on for the whole run and starting from
\* an empty Calendar, after any sequence of addInterval, stopInterval,
\* resumeInterval and deleteInterval calls every day bucket holds at most one
\* Running interval.
C1_AtMostOneRunningPerDay ==
    \A day \in DOMAIN calendar :
        Cardinality({i \in 1..Len(calendar[day]) : Running(calendar[day][i])}) <= 1

\* C2: with the toggle on, right after addInterval(x) no interval other than
\* x is Running in the bucket that received x, whether or not x came with a
\* start and whatever the shown date.
C2_AddLeavesOnlyNewRunning ==
    [][StepOf("add") => \A x \in AddArgs :
        (AddInterval(x, TRUE) /\ isStopLastIntervalOnAdd) =>
            LET received == getIntervals(calendar', StartOf(x))
            IN  \A i \in 1..(Len(received) - 1) : ~Running(received[i])]_vars

\* C3: whenever addInterval with the toggle on closes a Running interval, the
\* end it writes on it is the current time truncated to the minute.
C3_AddClosesAtNow ==
    [][StepOf("add") => \A x \in AddArgs :
        (AddInterval(x, TRUE) /\ isStopLastIntervalOnAdd) =>
            \A p \in Places(calendar) :
                (Running(At(calendar, p)) /\ ~Running(At(calendar', p)))
                    => At(calendar', p).end = cropDateToHoursMinutes(now)]_vars

\* The place p holds an interval in cal.
Holds(cal, p) == p[1] \in DOMAIN cal /\ p[2] \in 1..Len(cal[p[1]])

\* Every interval stored before the step is stored unchanged at its place.
AllKept == \A p \in Places(calendar) :
                Holds(calendar', p) /\ At(calendar', p) = At(calendar, p)

\* C4: with the toggle off, addInterval leaves every stored interval as it
\* was and only appends the new one.
C4_AddToggleOffOnlyAppends ==
    [][StepOf("add") => \A x \in AddArgs :
        (AddInterval(x, TRUE) /\ ~isStopLastIntervalOnAdd) =>
            /\ AllKept
            /\ Count(calendar') = Count(calendar) + 1
            /\ Len(getIntervals(calendar', StartOf(x)))
                    = Len(getIntervals(calendar, StartOf(x))) + 1]_vars

\* C4, reached: an addInterval with the toggle off has left two Running
\* intervals in one bucket.
C4_Witness ==
    /\ lastOp.op = "add"
    /\ ~isStopLastIntervalOnAdd
    /\ \E day \in DOMAIN calendar :
            /\ Len(calendar[day]) = 2
            /\ Running(calendar[day][1])
            /\ Running(calendar[day][2])

\* C5: after addInterval(x), getIntervals(x.start) holds x, with a non-empty
\* identifier, as the last element of the bucket; the bucket is created when
\* it was absent and the earlier elements keep their order.
C5_AddAppendsLast ==
    [][StepOf("add") => \A x \in AddArgs :
        AddInterval(x, TRUE) =>
            LET before == getIntervals(calendar, StartOf(x))
                after == getIntervals(calendar', StartOf(x))
                last == after[Len(after)]
            IN  /\ Len(after) = Len(before) + 1
                /\ last.identifier # NoId
                /\ x.identifier # NoId => last.identifier = x.identifier
                /\ last.start = cropDateToHoursMinutes(StartOf(x))
                /\ last.end = IF x.end = NoDate THEN NoDate
                              ELSE cropDateToHoursMinutes(x.end)
                /\ last.msg = x.msg
                /\ \A i \in 1..Len(before) :
                        /\ after[i].identifier = before[i].identifier
                        /\ after[i].start = before[i].start
                        /\ after[i].msg = before[i].msg]_vars

\* C5, reached: an addInterval at the current time has appended its interval
\* after another one (of another label) in today's bucket.
C5_Witness ==
    /\ lastOp.op = "add"
    /\ LET today == getIntervals(calendar, now)
       IN  /\ Len(today) = 2
           /\ today[2].identifier # NoId
           /\ today[2].start = cropDateToHoursMinutes(now)
           /\ today[1].msg # today[2].msg

\* C6: after any sequence of addInterval (with or without an identifier from
\* the caller), updateInterval, stopInterval, resumeInterval and
\* deleteInterval calls, no two intervals of the Calendar share an identifier.
C6_UniqueIdentifiers == UniqueIdentifiers(calendar)

\* C7: a Running interval stopped by stopInterval at time t and resumed at a
\* time t' with t' - t < 60 seconds is reopened: resumeInterval returns its
\* identifier, the record is Running and no interval is created.  Stated
\* for the calendars whose identifiers are unique, where the record of an
\* identifier is one record.
C7_ResumeWithinWindowOfStop ==
    [][StepOf("resume") => \A a \in CallArgs :
        (/\ ResumeInterval(a, TRUE)
         /\ UniqueIdentifiers(calendar)
         /\ lastOp.op = "stop"
         /\ lastOp.ret = Ret("id", a.identifier)
         /\ a \in Stored(calendar)
         /\ a.end = cropDateToHoursMinutes(lastOp.time)
         /\ now - lastOp.time < ResumeWindow) =>
            /\ lastOp'.ret = Ret("id", a.identifier)
            /\ Count(calendar') = Count(calendar)
            /\ \E p \in Places(calendar) :
                    /\ At(calendar, p) = a
                    /\ Running(At(calendar', p))]_vars

\* C8: resumeInterval on a Closed interval 61 seconds or more after its end
\* inserts a new interval, with another identifier, start = the current time
\* truncated to the minute, no end and the same label; the original record
\* stays Closed with its end.
C8_ResumeAfterWindowStartsNew ==
    [][StepOf("resume") => \A a \in CallArgs :
        (/\ ResumeInterval(a, TRUE)
         /\ a \in Stored(calendar)
         /\ ~Running(a)
         /\ now - a.end > ResumeWindow) =>
            LET today == getIntervals(calendar', now)
                new == today[Len(today)]
            IN  /\ Count(calendar') = Count(calendar) + 1
                /\ Len(today) = Len(getIntervals(calendar, now)) + 1
                /\ lastOp'.ret = Ret("id", new.identifier)
                /\ new.identifier # a.identifier
                /\ new.start = cropDateToHoursMinutes(now)
                /\ Running(new)
                /\ new.msg = a.msg
                /\ \A p \in Places(calendar) :
                        At(calendar, p) = a =>
                            Holds(calendar', p) /\ At(calendar', p) = a]_vars

\* C8, reached: resumeInterval has returned the identifier of a new Running
\* interval that starts now and carries the label "w" of a Closed interval
\* whose end is more than the window ago.
C8_Witness ==
    /\ lastOp.op = "resume"
    /\ \E p, q \in Places(calendar) :
            /\ ~Running(At(calendar, p))
            /\ now - At(calendar, p).end > ResumeWindow
            /\ At(calendar, p).msg = "w"
            /\ At(calendar, q).msg = "w"
            /\ At(calendar, q).identifier # At(calendar, p).identifier
            /\ lastOp.ret = Ret("id", At(calendar, q).identifier)
            /\ Running(At(calendar, q))
            /\ At(calendar, q).start = cropDateToHoursMinutes(now)

\* The calendar after the step is the calendar before it but for the end of
\* the interval at p, which is end.
OnlyEndSet(p, end) ==
    /\ DOMAIN calendar' = DOMAIN calendar
    /\ \A q \in Places(calendar) :
            /\ Holds(calendar', q)
            /\ At(calendar', q) = IF q = p THEN [At(calendar, q) EXCEPT !.end = end]
                                  ELSE At(calendar, q)
    /\ Count(calendar') = Count(calendar)

\* C9: stopInterval on a Running interval stored in the Calendar sets the end
\* of that record to the current time truncated to the minute, returns its
\* identifier, and changes no other interval and no other field of it.
C9_StopSetsOnlyEnd ==
    [][StepOf("stop") => \A a \in CallArgs :
        (StopInterval(a, TRUE) /\ a \in Stored(calendar) /\ Running(a)) =>
            /\ lastOp'.ret = Ret("id", a.identifier)
            /\ \E p \in Places(calendar) :
                    /\ At(calendar, p) = a
                    /\ OnlyEndSet(p, cropDateToHoursMinutes(now))]_vars

\* C10: stopInterval fails with NotFound when no record of the bucket of the
\* argument's start has the argument's identifier: it returns an error, which
\* is not what it returns on success (the identifier), and the Calendar is
\* unchanged.
C10_StopNotFoundIsError ==
    [][StepOf("stop") => \A a \in CallArgs :
        (/\ StopInterval(a, TRUE)
         /\ Running(a)
         /\ a.start # NoDate
         /\ findIndex(getIntervals(calendar, a.start), a.identifier) = 0) =>
            /\ lastOp'.ret.kind # "id"
            /\ calendar' = calendar]_vars

\* The call returned a value that is not the identifier of a success.
Failed(ret) == ret.kind \notin {"id", "threw"}

\* C11: an invalid transition is rejected without any change: stopInterval
\* given an interval that has an end, and resumeInterval given an interval that
\* has no end, return a failure value and leave the Calendar unchanged.
C11_InvalidTransitionRejected ==
    [][/\ StepOf("stop") => \A a \in CallArgs :
            (StopInterval(a, TRUE) /\ ~Running(a)) =>
                Failed(lastOp'.ret) /\ calendar' = calendar
       /\ StepOf("resume") => \A a \in CallArgs :
            (ResumeInterval(a, TRUE) /\ Running(a)) =>
                Failed(lastOp'.ret) /\ calendar' = calendar]_vars

\* C11, reached: stopInterval has rejected a stored Closed interval that
\* ended before the current minute.
C11_Witness ==
    /\ lastOp.op = "stop"
    /\ Failed(lastOp.ret)
    /\ \E r \in Stored(calendar) :
            ~Running(r) /\ r.end # cropDateToHoursMinutes(now)

\* The returned value is one of the error strings.
IsError(ret) == ret.kind \in {"required", "nointervals", "notfound"}

\* The argument has no start, or the bucket of the day of its start holds no
\* record of its identifier (the bucket may be empty).
NoRecordFor(a) ==
    \/ a.start = NoDate
    \/ findIndex(getIntervals(calendar, a.start), a.identifier) = 0

\* The argument is the stored record r with its start edited to another day.
MovedToOtherDay(a, r) ==
    /\ a.start # NoDate
    /\ a = [r EXCEPT !.start = a.start]
    /\ DayKey(a.start) # DayKey(r.start)

\* C12: updateInterval and deleteInterval return an error and leave the
\* Calendar unchanged when the start is absent, when the bucket of the day of
\* the start has no intervals or when no record of that bucket has the
\* identifier; in particular updateInterval on an interval whose start was
\* edited to another day returns NotFound and changes nothing.
C12_UpdateDeleteErrors ==
    [][/\ StepOf("update") => \A a \in UpdateArgs :
            UpdateInterval(a, TRUE) =>
                /\ NoRecordFor(a) =>
                        IsError(lastOp'.ret) /\ calendar' = calendar
                /\ (\E r \in Stored(calendar) : MovedToOtherDay(a, r)) =>
                        /\ lastOp'.ret.kind \in {"nointervals", "notfound"}
                        /\ calendar' = calendar
       /\ StepOf("delete") => \A a \in CallArgs :
            (DeleteInterval(a, TRUE) /\ NoRecordFor(a)) =>
                IsError(lastOp'.ret) /\ calendar' = calendar]_vars

\* C13: updateInterval, deleteInterval, stopInterval and resumeInterval never
\* throw: for every argument, an interval with no start included, the last
\* call returned a value to its caller.
C13_NeverThrows == lastOp.ret.kind # "threw"

\* The days that have at least one interval in cal.
DaysWithIntervals(cal) == {p[1] : p \in Places(cal)}

\* C14: starting from an empty Calendar, after any sequence of calls no
\* bucket is empty, getDates() returns exactly one date per day that has at
\* least one interval, and deleting the last interval of a bucket removes
\* that day from getDates().
C14_NoEmptyBucket ==
    [][/\ \A day \in DOMAIN calendar' : Len(calendar'[day]) > 0
       /\ getDates(calendar')
            = {DateOfKey(day) : day \in DaysWithIntervals(calendar')}
       /\ Cardinality(getDates(calendar'))
            = Cardinality(DaysWithIntervals(calendar'))
       /\ Count(calendar') < Count(calendar) => \A a \in CallArgs :
            (/\ DeleteInterval(a, FALSE)
             /\ a.start # NoDate
             /\ Len(getIntervals(calendar, a.start)) = 1) =>
                DateOfKey(DayKey(a.start)) \notin getDates(calendar')]_vars

\* C14, reached: the bucket of the shown date (a date picked among
\* getDates()) has been removed by deleteInterval and another day still has
\* intervals.
C14_Witness ==
    /\ showingDate = DateOfKey(DayKey(showingDate))
    /\ DayKey(showingDate) \notin DOMAIN calendar
    /\ calendar # <<>>

\* C15: starting from an empty Calendar, after any sequence of calls every
\* stored interval is in the bucket whose key is the day key of its own start.
C15_BucketOfOwnStart ==
    \A p \in Places(calendar) :
        /\ At(calendar, p).start # NoDate
        /\ p[1] = DayKey(At(calendar, p).start)

\* C15, reached: the Calendar holds intervals in the buckets of two days, one
\* of them a day before the current one.
C15_Witness ==
    /\ Cardinality(DOMAIN calendar) = 2
    /\ \E p \in Places(calendar) :
            /\ p[1] = DayKey(At(calendar, p).start)
            /\ p[1] # DayKey(now)

\* C16: starting from an empty Calendar, after any sequence of calls every
\* stored start and every stored end that is present is truncated to the
\* whole minute.
C16_StoredDatesCropped ==
    \A r \in Stored(calendar) :
        /\ r.start % TicksPerMinute = 0
        /\ r.end # NoDate => r.end % TicksPerMinute = 0

\* C16, reached: at a time that is not a whole minute, the Calendar holds an
\* interval that starts in the current minute and one that ended in it.
C16_Witness ==
    /\ now % TicksPerMinute # 0
    /\ \E r, q \in Stored(calendar) :
            /\ r.start = now - (now % TicksPerMinute)
            /\ q.end = now - (now % TicksPerMinute)

\* C17: every stored interval that has an end has end >= start, after any
\* sequence of calls, the closing of Running intervals by addInterval under
\* the single-running policy included.
C17_EndNotBeforeStart ==
    \A r \in Stored(calendar) : r.end # NoDate => r.end >= r.start

\* Two timestamps are on the same calendar day.
SameCalendarDay(date1, date2) == date1 \div TicksPerDay = date2 \div TicksPerDay

\* C18: the day key is a function of the calendar day only: two timestamps on
\* the same calendar day have the same key (and so the same bucket) whatever
\* their time of day, and two timestamps on different days have different keys.
C18_DayKeyOfDayOnly ==
    \A date1, date2 \in 0..MaxTime :
        /\ SameCalendarDay(date1, date2) <=> DayKey(date1) = DayKey(date2)
        /\ SameCalendarDay(date1, date2) =>
                getIntervals(calendar, date1) = getIntervals(calendar, date2)

\* C18, reached: one bucket holds two intervals that start at different
\* minutes of the same day, and the other day has no bucket.
C18_Witness ==
    \E day \in DOMAIN calendar :
        /\ Len(calendar[day]) = 2
        /\ calendar[day][1].start # calendar[day][2].start
        /\ SameCalendarDay(calendar[day][1].start, calendar[day][2].start)
        /\ getIntervals(calendar, OtherDay(calendar[day][1].start)) = <<>>

\* The non-empty labels of the intervals of the Calendar, all buckets.
NonEmptyLabels == {r.msg : r \in Stored(calendar)} \ {""}

\* C19: after any sequence of calls getDescriptions() returns exactly the
\* deduplicated, sorted non-empty labels of all the intervals of the Calendar,
\* whenever there is such a label.
C19_DescriptionsAreStoredLabels ==
    NonEmptyLabels # {} =>
        getDescriptions(descriptions)
            = SelectSeq(LabelOrder, LAMBDA l : l \in NonEmptyLabels)

\* C20: the empty label is never an element of what getDescriptions()
\* returns, after any sequence of calls, updateInterval on a bucket that holds
\* an interval with an empty label included.
C20_NoEmptyDescription ==
    \A i \in 1..Len(getDescriptions(descriptions)) :
        getDescriptions(descriptions)[i] # ""

\* localStorage holds the calendar: loading it gives the same day keys and the
\* same intervals in each bucket.
Synced ==
    /\ localStorage.kind = "json"
    /\ DOMAIN localStorage.obj = DOMAIN calendar
    /\ loadCalendar(localStorage).calendar = calendar

\* C21: every mutation is followed by a full resynchronization: after any
\* step that changes the Calendar (add, update, stop, resume, delete), once
\* the save it triggers has run without failure, the persisted calendar
\* equals the Calendar in memory.
C21_SavedAfterMutation ==
    [][(calendar' # calendar /\ ~quotaExceeded) => Synced']_vars

\* C21, reached: two intervals, one Closed and one Running, are in memory and
\* in localStorage.
C21_Witness ==
    /\ Synced
    /\ \E r, q \in Stored(calendar) : Running(r) /\ ~Running(q)
    /\ \E day \in DOMAIN localStorage.obj :
            \E i \in 1..Len(localStorage.obj[day]) :
                localStorage.obj[day][i].end # <<>>

\* C23: a load failure (the item absent or not parseable) leaves the Calendar
\* empty and raises nothing to the caller.
C23_LoadFailureGivesEmpty ==
    [][(lastOp'.op = "load" /\ Reload(TRUE) /\ localStorage.kind # "json") =>
            calendar' = <<>> /\ lastOp'.ret.kind # "threw"]_vars

\* C23, reached: the page was loaded on an item that is not JSON (which the
\* failing save effect left in place) and the Calendar is empty.
C23_Witness ==
    /\ lastOp.op = "load"
    /\ lastOp.ret.kind = "void"
    /\ localStorage = NotJSON
    /\ calendar = <<>>

\* The records of d written from the interval: same identifier, start, end,
\* label through the tag, and day key.
RecordsOf(d, date, interval) ==
    {r \in d.intervals :
        /\ r.identifier = interval.identifier
        /\ r.start = interval.start
        /\ r.end = interval.end
        /\ getTagName(d.tags, r.tagId) = interval.msg
        /\ r.date = date}

\* d holds the map exactly: one record per interval, none for another
\* identifier, the day keys of the non-empty buckets.
HoldsExactly(d, map) ==
    /\ \A p \in Places(map) :
            /\ RecordsOf(d, p[1], At(map, p)) # {}
            /\ Cardinality({r \in d.intervals :
                    r.identifier = At(map, p).identifier}) = 1
    /\ \A r \in d.intervals : \E q \in Stored(map) : q.identifier = r.identifier
    /\ {r.date : r \in d.intervals} = {day \in DOMAIN map : map[day] # <<>>}

\* C24: after saveAllIntervals(calendar) completes without error on a calendar
\* with unique identifiers, the store holds exactly one record per in-memory
\* interval (identifier, start, end, label through its tag, day key), no
\* record for an interval absent from the calendar, and the persisted day
\* keys are the non-empty buckets.
C24_SaveAllIsExact ==
    [][(/\ lastOp'.op = "save"
        /\ lastOp'.ret.kind = "void"
        /\ UniqueIdentifiers(lastOp'.calendar)
        /\ SaveAllIntervals(lastOp'.calendar, 0, TRUE))
            => HoldsExactly(db', lastOp'.calendar)]_vars

\* C25: saveAllIntervals is all-or-nothing: when a storage operation fails
\* part-way through a save, the interval records and the tag records are
\* left as they were before the call.
C25_SaveAllOrNothing ==
    [][(lastOp'.op = "save" /\ lastOp'.ret.kind = "threw")
            => (db'.intervals = db.intervals /\ db'.tags = db.tags)]_vars

\* C26: the upgrade from schema 1 to schema 2 preserves every interval: each
\* interval persisted under schema 1 is, after the upgrade, a record of the
\* store with its tag reference and day key, also when the legacy item was
\* removed by the migration to schema 1.
C26_UpgradeKeepsIntervals ==
    [][(db.version = 1 /\ db'.version = 2)
            => \A p \in Places(db.days) :
                    RecordsOf(db', p[1], At(db.days, p)) # {}]_vars

\* The step is a run of migrateFromLocalStorage, of either module.
Migration == {"migrate", "migrate1"}

Migrated(d, legacy) ==
    \A p \in Places(legacy) :
        IF d.version = 2 THEN RecordsOf(d, p[1], At(legacy, p)) # {}
        ELSE /\ p[1] \in DOMAIN d.days
             /\ \E i \in 1..Len(d.days[p[1]]) : d.days[p[1]][i] = At(legacy, p)

\* C28: the legacy item is removed only after every legacy interval is
\* written: for every run of migrateFromLocalStorage, a run that follows a
\* run that failed part-way included, once the item is gone every interval
\* it held is in the database.
C28_LegacyRemovedAfterWritten ==
    [][(/\ lastOp'.op \in Migration
        /\ localStorage.kind = "json"
        /\ localStorage'.kind = "absent")
            => Migrated(db', objToMap(localStorage.obj))]_vars

\* C22: a failed save neither rolls back nor blocks the Calendar in memory:
\* saveAllIntervals touches nothing of the provider, calls are still accepted
\* after a call that threw, and the next save that succeeds, of a calendar
\* with unique identifiers, makes the store equal to that calendar again.
C22_NextSaveResyncs ==
    [][(lastOp.op = "save" /\ lastOp.ret.kind = "threw")
            => /\ calendar' = calendar
               /\ ENABLED (\E map \in Calendars : SaveAllIntervals(map, 0, TRUE))
               /\ (/\ lastOp'.op = "save"
                   /\ lastOp'.ret.kind = "void"
                   /\ UniqueIdentifiers(lastOp'.calendar))
                        => HoldsExactly(db', lastOp'.calendar)]_vars

\* The records the step wrote.
Written == db'.intervals \ db.intervals

\* Each record the step wrote comes from an interval of the map, and refers
\* to no tag (null) when the label of the interval is empty, to the tag of
\* the label when it is not.
WrittenFrom(map) ==
    \A r \in Written :
        \E p \in Places(map) :
            /\ r.identifier = At(map, p).identifier
            /\ r.start = At(map, p).start
            /\ r.end = At(map, p).end
            /\ r.date = p[1]
            /\ IF At(map, p).msg = "" THEN r.tagId = NullTag
               ELSE \E t \in db'.tags :
                        t.id = r.tagId /\ t.name = At(map, p).msg

\* C29: an empty label never creates a tag: an interval whose label is ""
\* is saved or migrated with the null tag reference, and after any sequence
\* of saves and migrations no tag has the empty string for name.
C29_EmptyLabelHasNoTag ==
    [][/\ \A t \in db'.tags : t.name # ""
       /\ lastOp'.op = "save" => WrittenFrom(lastOp'.calendar)
       /\ (lastOp'.op = "migrate" /\ localStorage.kind = "json")
            => WrittenFrom(objToMap(localStorage.obj))]_vars

C29_Witness ==
    /\ lastOp.op = "save"
    /\ \E p \in Places(lastOp.calendar) : At(lastOp.calendar, p).msg = ""
    /\ \E r \in db.intervals : r.tagId = NullTag
    /\ \E r \in db.intervals : r.tagId # NullTag
    /\ localStorage = NoItem

\* The calls of getOrCreateTag that returned for a non-empty label.
Returned ==
    {p \in 1..MaxCalls :
        tagCalls.call[p].pc = "returned" /\ tagCalls.call[p].tagName # ""}

\* C30: tag names are unique: over any sequence of getOrCreateTag calls, two
\* calls for the same label that interleave included, the tag store holds at
\* most one tag per name, and every call that returns for a non-empty label
\* returns the id of the tag of that label, the same for every call.
C30_TagNamesUnique ==
    /\ \A t, u \in db.tags : t.name = u.name => t = u
    /\ \A p \in Returned :
            \E t \in db.tags :
                t.name = tagCalls.call[p].tagName /\ t.id = tagCalls.call[p].ret
    /\ \A p, q \in Returned :
            tagCalls.call[p].tagName = tagCalls.call[q].tagName
                => tagCalls.call[p].ret = tagCalls.call[q].ret

C30_Witness ==
    /\ Returned = 1..MaxCalls
    /\ \A p \in Returned : tagCalls.call[p].tagName = "x"
    /\ \E p \in Returned : tagCalls.call[p].overlapped
    /\ Cardinality(db.tags) = 2

\* The place of the record a call finds for its argument: the first record
\* with the identifier in the bucket of the day of the start.
PlaceOf(a) ==
    <<DayKey(a.start), findIndex(getIntervals(calendar, a.start), a.identifier)>>

\* resumeInterval takes the fast-resume branch on a: a has an end less than a
\* minute old and its record is found.
FastResume(a) ==
    /\ a.end # NoDate
    /\ canResumeInterval(a, now)
    /\ Found(a)

\* C31: fast resume changes only the end of one record: the stored record
\* with the identifier of the argument keeps its identifier, start and label
\* and gets end absent, its bucket keeps its length and order, and every
\* other interval is unchanged.
C31_FastResumeOnlyClearsEnd ==
    [][StepOf("resume") => \A a \in CallArgs :
        (ResumeInterval(a, TRUE) /\ FastResume(a)) =>
            /\ OnlyEndSet(PlaceOf(a), NoDate)
            /\ At(calendar', PlaceOf(a)).identifier = a.identifier
            /\ Running(At(calendar', PlaceOf(a)))
            /\ lastOp'.ret = Ret("id", a.identifier)]_vars

\* C31, reached: resumeInterval returned the identifier of the first record
\* of a bucket of two, which is Running and labelled; a fresh start would
\* have put its interval last.
C31_Witness ==
    /\ lastOp.op = "resume"
    /\ \E day \in DOMAIN calendar :
            /\ Len(calendar[day]) = 2
            /\ lastOp.ret = Ret("id", calendar[day][1].identifier)
            /\ Running(calendar[day][1])
            /\ calendar[day][1].msg = "w"
            /\ calendar[day][2].identifier # calendar[day][1].identifier
            /\ ~Running(calendar[day][2])

\* C32: a successful updateInterval replaces the record in place: the updated
\* record sits at the position of the record found, in the same bucket, the
\* bucket keeps its length and the order of its other records, and no other
\* bucket changes.
C32_UpdateReplacesInPlace ==
    [][StepOf("update") => \A a \in UpdateArgs :
        (UpdateInterval(a, TRUE) /\ lastOp'.ret.kind = "id") =>
            /\ Found(a)
            /\ DOMAIN calendar' = DOMAIN calendar
            /\ Count(calendar') = Count(calendar)
            /\ \A q \in Places(calendar) :
                    /\ Holds(calendar', q)
                    /\ At(calendar', q) = IF q = PlaceOf(a) THEN cropDayInterval(a)
                                          ELSE At(calendar, q)]_vars

\* C32, reached: updateInterval returned the identifier of the first record
\* of a bucket of two, whose label it changed: the descriptions are the
\* labels of the bucket.
C32_Witness ==
    /\ lastOp.op = "update"
    /\ \E day \in DOMAIN calendar :
            /\ Len(calendar[day]) = 2
            /\ lastOp.ret = Ret("id", calendar[day][1].identifier)
            /\ calendar[day][2].identifier # calendar[day][1].identifier
            /\ calendar[day][1].msg = "w"
            /\ calendar[day][2].msg = ""
            /\ descriptions = <<"", "w">>

\* The sequence without its element at index.
Without(intervals, index) ==
    [i \in 1..(Len(intervals) - 1) |->
        IF i < index THEN intervals[i] ELSE intervals[i + 1]]

\* C33: a successful deleteInterval removes exactly the record with the given
\* identifier from the bucket of the day of the start: the other records of
\* the bucket keep their order and every other bucket is unchanged.
C33_DeleteRemovesOneRecord ==
    [][StepOf("delete") => \A a \in CallArgs :
        (DeleteInterval(a, TRUE) /\ lastOp'.ret.kind = "null") =>
            /\ Found(a)
            /\ At(calendar, PlaceOf(a)).identifier = a.identifier
            /\ Bucket(calendar', DayKey(a.start))
                    = Without(Bucket(calendar, DayKey(a.start)), PlaceOf(a)[2])
            /\ \A day \in (DOMAIN calendar \cup DOMAIN calendar') \ {DayKey(a.start)} :
                    Bucket(calendar', day) = Bucket(calendar, day)
            /\ Count(calendar') = Count(calendar) - 1]_vars

\* C33, reached: deleteInterval has returned null and left one record, while
\* the calendar held two before (the identifier 2 was generated second).
C33_Witness ==
    /\ lastOp.op = "delete"
    /\ lastOp.ret.kind = "null"
    /\ Count(calendar) = 1
    /\ \E r \in Stored(calendar) : r.identifier = 2

\* C34: save/load round trip: for a calendar with unique identifiers and no
\* empty bucket, saveAllIntervals(calendar) on an empty store followed by
\* getAllIntervals() gives a calendar with the same day keys and, in each
\* bucket, the same intervals (identifier, start, end, label) in the same
\* order.
C34_SaveLoadRoundTrip ==
    [][(/\ lastOp'.op = "save"
        /\ lastOp'.ret.kind = "void"
        /\ db.intervals = {}
        /\ UniqueIdentifiers(lastOp'.calendar)
        /\ \A day \in DOMAIN lastOp'.calendar : lastOp'.calendar[day] # <<>>
        /\ SaveAllIntervals(lastOp'.calendar, 0, TRUE))
            => getAllIntervals(db') = lastOp'.calendar]_vars

\* C34, reached: a calendar of two intervals in one bucket, one Closed and
\* labelled, was saved in two new records and is read back as it is.
C34_Witness ==
    /\ lastOp.op = "save"
    /\ lastOp.ret.kind = "void"
    /\ UniqueIdentifiers(lastOp.calendar)
    /\ \E day \in DOMAIN lastOp.calendar :
            /\ Len(lastOp.calendar[day]) = 2
            /\ \E i \in 1..2 : /\ lastOp.calendar[day][i].msg = "w"
                                /\ ~Running(lastOp.calendar[day][i])
    /\ {r.id : r \in db.intervals} = {1, 2}
    /\ getAllIntervals(db) = lastOp.calendar

\* C35: after migrateFromLocalStorage succeeds on an empty store,
\* getAllIntervals() returns the legacy mapping: the same day keys and, per
\* day, the same intervals with the same identifier, start, end and label.
C35_MigrationKeepsMapping ==
    [][/\ (/\ lastOp'.op = "migrate"
           /\ lastOp'.ret.kind = "true"
           /\ localStorage.kind = "json"
           /\ db.intervals = {})
                => getAllIntervals(db') = objToMap(localStorage.obj)
       /\ (/\ lastOp'.op = "migrate1"
           /\ lastOp'.ret.kind = "true"
           /\ localStorage.kind = "json"
           /\ db.days = <<>>)
                => getAllIntervals1(db') = objToMap(localStorage.obj)]_vars

\* C35, reached: the migration returned true, the item is gone and the store
\* reads as two days with an interval each, one labelled.
C35_Witness ==
    /\ lastOp.op = "migrate"
    /\ lastOp.ret.kind = "true"
    /\ localStorage = NoItem
    /\ Cardinality(DOMAIN getAllIntervals(db)) = 2
    /\ \E r \in Stored(getAllIntervals(db)) : r.msg = "w"
    /\ Cardinality(db.intervals) = 2

\* C36: tags are never collected: saveAllIntervals deletes or renames no tag,
\* so the tag of a label stays in the tag store after every interval that
\* carried it was deleted and saved.
C36_TagsAreKept ==
    [][lastOp'.op = "save" => \A t \in db.tags : t \in db'.tags]_vars

\* C36, reached: a save has left the store without any record, and the tag
\* "w" of an earlier save is in the tag store.
C36_Witness ==
    /\ lastOp.op = "save"
    /\ lastOp.ret.kind = "void"
    /\ lastOp.calendar = <<>>
    /\ db.intervals = {}
    /\ \E t \in db.tags : t.name = "w"

\* C37: stopInterval never changes the end of a stored record that is
\* already Closed: given a stale copy of the interval (its end absent) whose
\* stored record has an end, it keeps the stored end.
C37_StopKeepsClosedEnd ==
    [][StepOf("stop") => \A a \in CallArgs :
        StopInterval(a, TRUE) =>
            \A p \in Places(calendar) :
                ~Running(At(calendar, p)) =>
                    /\ Holds(calendar', p)
                    /\ At(calendar', p).end = At(calendar, p).end]_vars

\* The calls of saveAllIntervals that ran together and have all returned.
Overlapped ==
    /\ \A p \in 1..MaxSaves : saveCalls[p].pc = "returned"
    /\ \A p \in 1..MaxSaves : saveCalls[p].overlapped

\* C38: when two calls of saveAllIntervals for the same calendar overlap, the
\* store ends with exactly one interval record per identifier of the
\* calendar.
C38_OverlappingSavesKeepOneRecord ==
    Overlapped =>
        \A a \in Stored(saveCalls[1].calendar) :
            Cardinality({r \in db.intervals : r.identifier = a.identifier}) = 1

\* C39: no accepted mutation is lost: after two calls of addInterval made
\* from the same rendered calendar, before the provider renders again, the
\* calendar holds a record for each of them.
C39_BothAddsAreKept ==
    [][StepOf("addTwice") => Count(calendar') = Count(calendar) + 2]_vars

\* C40: the minutes field accepts only 0..59: for a number typed outside that
\* range no change is propagated, and a change that is propagated leaves the
\* date in its hour and in its day.
C40_MinutesStayInTheHour ==
    lastOp.op = "minutes" =>
        /\ (/\ lastOp.value.kind = "number"
            /\ lastOp.value.n \notin 0..(MinutesPerHour - 1))
                => ~lastOp.called
        /\ (lastOp.called /\ lastOp.newDate # InvalidDate)
                => /\ getHours(lastOp.newDate) = getHours(lastOp.date)
                   /\ wallDay(lastOp.newDate) = wallDay(lastOp.date)

====
